---- MODULE Spec2Model ----
(***************************************************************************)
(* Lock Manager (src/index.js) over the ResourceLock collection            *)
(* (src/unnamed/part_000).                                                 *)
(*                                                                         *)
(* Every request handler is an async function: it runs synchronously up to *)
(* an `await` on a store call, the store executes that call atomically,    *)
(* and the handler resumes with its result.  One action of the model is    *)
(* one such segment: the awaited store call takes effect and the handler   *)
(* runs on to its next `await` or to its response.  Handlers of different  *)
(* requests interleave freely between segments.                            *)
(***************************************************************************)
EXTENDS Integers, Sequences, FiniteSets, TLC

\* ------------------------------------------------------------------ bounds
NumProcs == 3          \* request slots
MaxClock == 2          \* the clock runs 0..MaxClock
MaxTTL == 1            \* ttl_seconds given by callers ranges over 0..MaxTTL

Procs == 1..NumProcs
Resources == {"r1", "r2"}
Holders == {"A", "B"}
\* what a caller may send as an identifier: "" stands for empty or missing
Names(S) == S \cup {""}

Null == -1             \* expires_at: null
NoTTL == -2            \* ttl_seconds missing from the request body
TTLs == {NoTTL} \cup (0..MaxTTL)
Times == 0..MaxClock

\* ------------------------------------------------------------------ state
VARIABLES
    store,        \* the ResourceLock collection: a set of documents
    now,          \* the clock behind `new Date()`
    pc,           \* per slot: where its handler is suspended
    req,          \* per slot: the request being served
    newLock,      \* POST /locks/request: the document built at lines 53-61
    currentTime,  \* list handlers: `currentTime`, read before the find
    locks,        \* list handlers: the documents still to be looped over
    validLocks,   \* list handlers: the result built so far
    res,          \* per slot: the response sent (NoRes until then)
    granted       \* history: per resource, the lease of the last Acquired
                  \* response that its holder has not released since

vars == <<store, now, pc, req, newLock, currentTime, locks, validLocks, res, granted>>

\* a ResourceLock document (schema, part_000 lines 3-21)
Doc(r, h, at, exp) ==
    [resource_name |-> r, process_id_str |-> h, locked_at |-> at, expires_at |-> exp]

NoDoc == Doc("", "", Null, Null)    \* findOne's null

NoReq == [op |-> "none", resource_name |-> "", process_id_str |-> "", ttl_seconds |-> NoTTL]
Req(op, r, h, ttl) ==
    [op |-> op, resource_name |-> r, process_id_str |-> h, ttl_seconds |-> ttl]

\* a response: HTTP code and the body's fields (`status` also stands for
\* is_locked, `list` for the array a list handler answers with)
Resp(code, status, r) ==
    [code |-> code, status |-> status, resource_name |-> r, process_id_str |-> "",
     locked_by |-> "", locked_at |-> Null, list |-> <<>>]
NoRes == Resp(0, "none", "")

\* the bodies the handlers answer with
Invalid == Resp(400, "invalid", "")
\* a 409 that does not say who holds the lock
DeniedNamesNobody(r, by) == Resp(409, "denied", r)

Denied(r, by) == [Resp(409, "denied", r) EXCEPT !.locked_by = by]
Acquired(r, h) == [Resp(200, "acquired", r) EXCEPT !.process_id_str = h]
Released(r) == Resp(200, "released", r)
NotLocked(r) == Resp(404, "resource_not_locked", r)
Forbidden(r) == Resp(403, "not_locked_by_process", r)
Unlocked(r) == Resp(200, "unlocked", r)
Locked(r, lock) ==
    [Resp(200, "locked", r) EXCEPT !.locked_by = lock.process_id_str,
                                   !.locked_at = lock.locked_at]
Listed(valid) == [Resp(200, "list", "") EXCEPT !.list = valid]

\* ------------------------------------------------------------------ store
\* the documents a filter { resource_name: r } matches
Matching(S, r) == {d \in S : d.resource_name = r}

\* a findOne without its filter
FindOneAny(S, r) == IF S = {} THEN {NoDoc} ELSE S

\* Model.findOne({ resource_name }): the possible results (null when none)
FindOne(S, r) == IF Matching(S, r) = {} THEN {NoDoc} ELSE Matching(S, r)

\* a deleteOne that removes nothing
DeleteOneNothing(S, r) == {S}

\* Model.deleteOne({ resource_name }): the possible stores afterwards; the
\* filter names the resource only, whatever document the caller read before
DeleteOne(S, r) == IF Matching(S, r) = {} THEN {S} ELSE {S \ {d} : d \in Matching(S, r)}

\* no unique index on resource_name
DuplicateKeyNever(S, doc) == FALSE

\* a unique index that only counts records whose expires_at has not passed
DuplicateKeyLiveOnly(S, doc) ==
    \E d \in Matching(S, doc.resource_name) : d.expires_at = Null \/ d.expires_at >= now

\* the unique index on resource_name: does inserting doc raise E11000?
DuplicateKey(S, doc) == Matching(S, doc.resource_name) # {}

\* Model.find() and Model.find({ process_id_str })
Find(S) == S
FindByProcess(S, h) == {d \in S : d.process_id_str = h}

\* the orders in which a find may hand back a set of documents
Orders(S) ==
    {s \in [1..Cardinality(S) -> S] : \A i, j \in 1..Cardinality(S) : i # j => s[i] # s[j]}

\* ------------------------------------------------------------------ helpers
\* the expiry comparison the wrong way round
ExpiredReversed(lock, t) == lock.expires_at # Null /\ lock.expires_at > t

\* the expiry comparison without the test for a missing expires_at
ExpiredNoNullTest(lock, t) == lock.expires_at < t

\* `lock.expires_at && lock.expires_at < currentTime`
Expired(lock, t) == lock.expires_at # Null /\ lock.expires_at < t

\* a validation that forgets the holder id
MissingInputResourceOnly(r, h) == r = ""

\* `!resource_name || !process_id_str`
MissingInput(r, h) == r = "" \/ h = ""

\* `ttl_seconds ? new Date(locked_at.getTime() + ttl_seconds * 1000) : null`
ExpiresAt(locked_at, ttl) == IF ttl # NoTTL /\ ttl # 0 THEN locked_at + ttl ELSE Null

\* a release that does not compare holders
NotHolderNever(existingLock, h) == FALSE

\* `existingLock.process_id_str !== process_id_str`
NotHolder(existingLock, h) == existingLock.process_id_str # h

\* the element a list handler pushes for a document it keeps
Entry(op, lock) ==
    IF op = "list_all"
    THEN [resource_name |-> lock.resource_name, locked_by |-> lock.process_id_str,
          locked_at |-> lock.locked_at]
    ELSE [resource_name |-> lock.resource_name, locked_at |-> lock.locked_at]

\* the `for (const lock of locks)` loop from `rest` on, up to its next await:
\* it stops in front of an expired document (whose deleteOne it awaits) or at
\* the end of the list
RECURSIVE Loop(_, _, _, _)
Loop(op, rest, valid, ct) ==
    IF rest = <<>> THEN [locks |-> <<>>, validLocks |-> valid]
    ELSE IF Expired(Head(rest), ct) THEN [locks |-> rest, validLocks |-> valid]
    ELSE Loop(op, Tail(rest), Append(valid, Entry(op, Head(rest))), ct)

\* ------------------------------------------------------------------ Init
Init ==
    /\ store = {}
    /\ now = 0
    /\ pc = [p \in Procs |-> "idle"]
    /\ req = [p \in Procs |-> NoReq]
    /\ newLock = [p \in Procs |-> NoDoc]
    /\ currentTime = [p \in Procs |-> Null]
    /\ locks = [p \in Procs |-> <<>>]
    /\ validLocks = [p \in Procs |-> <<>>]
    /\ res = [p \in Procs |-> NoRes]
    /\ granted = [r \in Resources |-> NoDoc]

\* a slot is free for a new request before its first one and after a response
Free(p) == pc[p] \in {"idle", "done"}

\* handler p takes up request q and suspends at label l
Begin(p, q, l) ==
    /\ Free(p)
    /\ req' = [req EXCEPT ![p] = q]
    /\ pc' = [pc EXCEPT ![p] = l]
    /\ res' = [res EXCEPT ![p] = NoRes]

\* handler p answers a request q it does not take up
Reject(p, b) ==
    /\ Free(p)
    /\ pc' = [pc EXCEPT ![p] = "done"]
    /\ res' = [res EXCEPT ![p] = b]
    /\ req' = [req EXCEPT ![p] = NoReq]

\* handler p sends response b and ends
Respond(p, b) ==
    /\ pc' = [pc EXCEPT ![p] = "done"]
    /\ res' = [res EXCEPT ![p] = b]
    /\ req' = [req EXCEPT ![p] = NoReq]

\* handler p suspends at label l
Goto(p, l) ==
    /\ pc' = [pc EXCEPT ![p] = l]
    /\ UNCHANGED <<req, res>>

\* the clock advances on its own
Tick ==
    /\ now < MaxClock
    /\ now' = now + 1
    /\ UNCHANGED <<store, pc, req, newLock, currentTime, locks, validLocks, res, granted>>

\* ------------------------------------------------- POST /locks/request
\* lines 21-31: the body is validated and findOne is issued
AcqStart(p, r, h, ttl) ==
    /\ IF MissingInput(r, h)
       THEN Reject(p, Invalid)
       ELSE Begin(p, Req("acquire", r, h, ttl), "acq_find")
    /\ UNCHANGED <<store, now, newLock, currentTime, locks, validLocks, granted>>

\* lines 53-61: the document a request asks for, built at clock value t
NewLock(q, t) ==
    Doc(q.resource_name, q.process_id_str, t, ExpiresAt(t, q.ttl_seconds))

\* lines 31-61: findOne answers; expired -> deleteOne is issued; live ->
\* denied; none -> the new document is built and save is issued
AcqFindOne(p) ==
    /\ pc[p] = "acq_find"
    /\ \E existingLock \in FindOne(store, req[p].resource_name) :
         IF existingLock # NoDoc /\ Expired(existingLock, now)
         THEN /\ Goto(p, "acq_delete")
              /\ UNCHANGED newLock
         ELSE IF existingLock # NoDoc
         THEN /\ Respond(p, Denied(req[p].resource_name, existingLock.process_id_str))
              /\ UNCHANGED newLock
         ELSE /\ Goto(p, "acq_save")
              /\ newLock' = [newLock EXCEPT ![p] = NewLock(req[p], now)]
    /\ UNCHANGED <<store, now, currentTime, locks, validLocks, granted>>

\* lines 38-61: the reclaiming deleteOne takes effect, then the new document
\* is built and save is issued
AcqDeleteOne(p) ==
    /\ pc[p] = "acq_delete"
    /\ store' \in DeleteOne(store, req[p].resource_name)
    /\ Goto(p, "acq_save")
    /\ newLock' = [newLock EXCEPT ![p] = NewLock(req[p], now)]
    /\ UNCHANGED <<now, currentTime, locks, validLocks, granted>>

\* lines 63-72: save inserts and the handler answers acquired, or the unique
\* index rejects it (error.code === 11000) and the catch block issues findOne
AcqSave(p) ==
    /\ pc[p] = "acq_save"
    /\ IF DuplicateKey(store, newLock[p])
       THEN /\ Goto(p, "acq_catch")
            /\ UNCHANGED <<store, granted>>
       ELSE /\ store' = store \cup {newLock[p]}
            /\ Respond(p, Acquired(req[p].resource_name, req[p].process_id_str))
            /\ granted' = [granted EXCEPT ![req[p].resource_name] = newLock[p]]
    /\ newLock' = [newLock EXCEPT ![p] = NoDoc]
    /\ UNCHANGED <<now, currentTime, locks, validLocks>>

\* lines 72-77: the catch block's findOne answers; `existingLock.process_id_str`
\* on null throws inside the catch block, and no response is ever sent
AcqCatchFindOne(p) ==
    /\ pc[p] = "acq_catch"
    /\ \E existingLock \in FindOne(store, req[p].resource_name) :
         IF existingLock = NoDoc
         THEN Goto(p, "thrown")
         ELSE Respond(p, Denied(req[p].resource_name, existingLock.process_id_str))
    /\ UNCHANGED <<store, now, newLock, currentTime, locks, validLocks, granted>>

\* ------------------------------------------------- POST /locks/release
\* lines 84-93: the body is validated and findOne is issued
RelStart(p, r, h) ==
    /\ IF MissingInput(r, h)
       THEN Reject(p, Invalid)
       ELSE Begin(p, Req("release", r, h, NoTTL), "rel_find")
    /\ UNCHANGED <<store, now, newLock, currentTime, locks, validLocks, granted>>

\* lines 93-109: findOne answers; none -> 404; another holder's -> 403;
\* otherwise deleteOne is issued.  expires_at is not looked at.
RelFindOne(p) ==
    /\ pc[p] = "rel_find"
    /\ \E existingLock \in FindOne(store, req[p].resource_name) :
         IF existingLock = NoDoc
         THEN Respond(p, NotLocked(req[p].resource_name))
         ELSE IF NotHolder(existingLock, req[p].process_id_str)
         THEN Respond(p, Forbidden(req[p].resource_name))
         ELSE Goto(p, "rel_delete")
    /\ UNCHANGED <<store, now, newLock, currentTime, locks, validLocks, granted>>

\* lines 109-114: deleteOne({ resource_name }) takes effect; released
RelDeleteOne(p) ==
    /\ pc[p] = "rel_delete"
    /\ store' \in DeleteOne(store, req[p].resource_name)
    /\ Respond(p, Released(req[p].resource_name))
    /\ granted' = [granted EXCEPT ![req[p].resource_name] =
                      IF @.process_id_str = req[p].process_id_str THEN NoDoc ELSE @]
    /\ UNCHANGED <<now, newLock, currentTime, locks, validLocks>>

\* ------------------------------------------------- GET /locks/status/:resource_name
\* lines 121-125: findOne is issued
StatusStart(p, r) ==
    /\ Begin(p, Req("status", r, "", NoTTL), "status_find")
    /\ UNCHANGED <<store, now, newLock, currentTime, locks, validLocks, granted>>

\* lines 125-149: findOne answers; none -> is_locked false; expired ->
\* deleteOne is issued; otherwise is_locked true with holder and locked_at
StatusFindOne(p) ==
    /\ pc[p] = "status_find"
    /\ \E lock \in FindOne(store, req[p].resource_name) :
         IF lock = NoDoc
         THEN Respond(p, Unlocked(req[p].resource_name))
         ELSE IF Expired(lock, now)
         THEN Goto(p, "status_delete")
         ELSE Respond(p, Locked(req[p].resource_name, lock))
    /\ UNCHANGED <<store, now, newLock, currentTime, locks, validLocks, granted>>

\* lines 137-141: the reclaiming deleteOne takes effect; is_locked false
StatusDeleteOne(p) ==
    /\ pc[p] = "status_delete"
    /\ store' \in DeleteOne(store, req[p].resource_name)
    /\ Respond(p, Unlocked(req[p].resource_name))
    /\ UNCHANGED <<now, newLock, currentTime, locks, validLocks, granted>>

\* ------------------------------------------------- the two list handlers
\* the loop has run from `rest` on with `valid` collected before it: the
\* handler suspends at the next expired document or answers
ListRun(p, rest, valid) ==
    LET l == Loop(req[p].op, rest, valid, currentTime[p]) IN
    IF l.locks = <<>>
    THEN /\ Respond(p, Listed(l.validLocks))
         /\ currentTime' = [currentTime EXCEPT ![p] = Null]
         /\ locks' = [locks EXCEPT ![p] = <<>>]
         /\ validLocks' = [validLocks EXCEPT ![p] = <<>>]
    ELSE /\ Goto(p, "list_delete")
         /\ locks' = [locks EXCEPT ![p] = l.locks]
         /\ validLocks' = [validLocks EXCEPT ![p] = l.validLocks]
         /\ UNCHANGED currentTime

\* lines 165 / 193: the deleteOne of the expired document the loop stands at
\* takes effect, and the loop runs on
ListDeleteOne(p) ==
    /\ pc[p] = "list_delete"
    /\ store' \in DeleteOne(store, Head(locks[p]).resource_name)
    /\ ListRun(p, Tail(locks[p]), validLocks[p])
    /\ UNCHANGED <<now, newLock, granted>>

\* GET /locks/all-locked, lines 156-159: the clock is read, find() is issued
ListAllStart(p) ==
    /\ Begin(p, Req("list_all", "", "", NoTTL), "all_find")
    /\ currentTime' = [currentTime EXCEPT ![p] = now]
    /\ UNCHANGED <<store, now, newLock, locks, validLocks, granted>>

\* lines 159-175: find() answers, in some order
ListAllFind(p) ==
    /\ pc[p] = "all_find"
    /\ \E order \in Orders(Find(store)) : ListRun(p, order, <<>>)
    /\ UNCHANGED <<store, now, newLock, granted>>

\* GET /locks/process/:process_id_str, lines 182-187
ListProcStart(p, h) ==
    /\ Begin(p, Req("list_process", "", h, NoTTL), "proc_find")
    /\ currentTime' = [currentTime EXCEPT ![p] = now]
    /\ UNCHANGED <<store, now, newLock, locks, validLocks, granted>>

\* lines 187-202: find({ process_id_str }) answers, in some order
ListProcFind(p) ==
    /\ pc[p] = "proc_find"
    /\ \E order \in Orders(FindByProcess(store, req[p].process_id_str)) :
           ListRun(p, order, <<>>)
    /\ UNCHANGED <<store, now, newLock, granted>>

\* ------------------------------------------------- a store call fails
\* `res.status(500).json({ error: 'Internal server error' })`
ServerError == Resp(500, "error", "")

\* POST /locks/request, lines 29-80: findOne, the reclaiming deleteOne or
\* save rejects with an error other than the duplicate key; the catch block
\* answers 500.  A call that fails leaves the store as it was.
AcqStoreError(p) ==
    /\ pc[p] \in {"acq_find", "acq_delete", "acq_save"}
    /\ Respond(p, ServerError)
    /\ newLock' = [newLock EXCEPT ![p] = NoDoc]
    /\ UNCHANGED <<store, now, currentTime, locks, validLocks, granted>>

\* line 72: the findOne inside the catch block rejects; nothing catches it,
\* and no response is ever sent
AcqCatchStoreError(p) ==
    /\ pc[p] = "acq_catch"
    /\ Goto(p, "thrown")
    /\ UNCHANGED <<store, now, newLock, currentTime, locks, validLocks, granted>>

\* POST /locks/release, lines 92-117: findOne or deleteOne rejects; 500
RelStoreError(p) ==
    /\ pc[p] \in {"rel_find", "rel_delete"}
    /\ Respond(p, ServerError)
    /\ UNCHANGED <<store, now, newLock, currentTime, locks, validLocks, granted>>

\* GET /locks/status, lines 124-152: findOne or the reclaiming deleteOne
\* (awaited inside the try block) rejects; 500
StatusStoreError(p) ==
    /\ pc[p] \in {"status_find", "status_delete"}
    /\ Respond(p, ServerError)
    /\ UNCHANGED <<store, now, newLock, currentTime, locks, validLocks, granted>>

\* the list handlers, lines 157-178 and 185-205: find or a reclaiming
\* deleteOne (awaited inside the loop, inside the try block) rejects; 500
ListStoreError(p) ==
    /\ pc[p] \in {"all_find", "proc_find", "list_delete"}
    /\ Respond(p, ServerError)
    /\ currentTime' = [currentTime EXCEPT ![p] = Null]
    /\ locks' = [locks EXCEPT ![p] = <<>>]
    /\ validLocks' = [validLocks EXCEPT ![p] = <<>>]
    /\ UNCHANGED <<store, now, newLock, granted>>

\* ------------------------------------------------------------------ Next
\* Spec: two callers race on one resource name, with every operation
Racers == {1, 2}
Contended == {"r1"}

Next ==
    \/ Tick
    \/ \E p \in Racers :
        \/ \E r \in Names(Contended), h \in Names(Holders), ttl \in TTLs : AcqStart(p, r, h, ttl)
        \/ AcqFindOne(p)
        \/ AcqDeleteOne(p)
        \/ AcqSave(p)
        \/ AcqCatchFindOne(p)
        \/ \E r \in Names(Contended), h \in Names(Holders) : RelStart(p, r, h)
        \/ RelFindOne(p)
        \/ RelDeleteOne(p)
        \/ \E r \in Contended : StatusStart(p, r)
        \/ StatusFindOne(p)
        \/ StatusDeleteOne(p)
        \/ ListAllStart(p)
        \/ ListAllFind(p)
        \/ \E h \in Holders : ListProcStart(p, h)
        \/ ListProcFind(p)
        \/ ListDeleteOne(p)

Spec == Init /\ [][Next]_vars

\* SpecSeq: one caller, one request at a time, on two resource names.  The
\* catch block of POST /locks/request is left out: with nobody else writing,
\* save never meets a duplicate key.
Caller == CHOOSE p \in Procs : \A q \in Procs : p <= q

NextSeq ==
    \/ Tick
    \/ \E r \in Names(Resources), h \in Names(Holders), ttl \in TTLs : AcqStart(Caller, r, h, ttl)
    \/ AcqFindOne(Caller)
    \/ AcqDeleteOne(Caller)
    \/ AcqSave(Caller)
    \/ \E r \in Names(Resources), h \in Names(Holders) : RelStart(Caller, r, h)
    \/ RelFindOne(Caller)
    \/ RelDeleteOne(Caller)
    \/ \E r \in Resources : StatusStart(Caller, r)
    \/ StatusFindOne(Caller)
    \/ StatusDeleteOne(Caller)
    \/ ListAllStart(Caller)
    \/ ListAllFind(Caller)
    \/ \E h \in Holders : ListProcStart(Caller, h)
    \/ ListProcFind(Caller)
    \/ ListDeleteOne(Caller)

SpecSeq == Init /\ [][NextSeq]_vars

\* SpecStress: the concurrent-acquire stress test.  Every slot sends one
\* Acquire for the same resource under its own holder id; nothing is released
\* and no lease expires: the clock moves only while no lease in play has a ttl.
HolderOf(p) == ToString(p)

StressAcquire(p, ttl) ==
    /\ pc[p] = "idle"
    /\ \E r \in Contended : AcqStart(p, r, HolderOf(p), ttl)

StressTick ==
    /\ \A p \in Procs : ExpiresAt(0, req[p].ttl_seconds) = Null
    /\ \A d \in store : d.expires_at = Null
    /\ Tick

NextStress ==
    \/ StressTick
    \/ \E p \in Procs :
        \/ \E ttl \in TTLs : StressAcquire(p, ttl)
        \/ AcqFindOne(p)
        \/ AcqSave(p)
        \/ AcqCatchFindOne(p)

SpecStress == Init /\ [][NextStress]_vars

\* SpecFail: Spec, and any store call in flight may fail
NextFail ==
    \/ Next
    \/ \E p \in Racers :
        \/ AcqStoreError(p)
        \/ AcqCatchStoreError(p)
        \/ RelStoreError(p)
        \/ StatusStoreError(p)
        \/ ListStoreError(p)

SpecFail == Init /\ [][NextFail]_vars

\* SpecPair: two callers, each on a resource name of its own, with the three
\* operations that name one resource: operations on "r1" interleave with
\* operations on "r2"
ResourcesOf(p) == IF p = Caller THEN Contended ELSE Resources \ Contended

NextPair ==
    \/ Tick
    \/ \E p \in Racers :
        \/ \E r \in ResourcesOf(p), h \in Holders, ttl \in TTLs : AcqStart(p, r, h, ttl)
        \/ AcqFindOne(p)
        \/ AcqDeleteOne(p)
        \/ AcqSave(p)
        \/ \E r \in ResourcesOf(p), h \in Holders : RelStart(p, r, h)
        \/ RelFindOne(p)
        \/ RelDeleteOne(p)
        \/ \E r \in ResourcesOf(p) : StatusStart(p, r)
        \/ StatusFindOne(p)
        \/ StatusDeleteOne(p)

SpecPair == Init /\ [][NextPair]_vars

\* ------------------------------------------------------------------ claims
\* the elements of a sequence
Range(q) == {q[i] : i \in 1..Len(q)}

\* slot p's handler moves from label `from` in this step
Leaves(p, from) == pc[p] = from /\ pc'[p] # from

\* C1: mutual exclusion under every interleaving.  When an Acquire on R is
\* answered `acquired`, the lease of the previous `acquired` answer on R has
\* been released by its holder or has passed its expires_at: R never goes
\* LOCKED -> LOCKED without passing through UNLOCKED.
C1_MutualExclusion ==
    [][\A p \in Procs :
          (Leaves(p, "acq_save") /\ res'[p].status = "acquired")
          => LET held == granted[req[p].resource_name] IN
             held = NoDoc \/ (held.expires_at # Null /\ held.expires_at < now)]_vars

\* C2: the stress test.  Whenever no Acquire is in flight and some have been
\* answered, exactly one of them was answered `acquired` and every other one
\* `denied`, naming the winner.
C2_OneWinner ==
    LET done == {p \in Procs : pc[p] = "done"} IN
    ((\A p \in Procs : pc[p] \in {"idle", "done"}) /\ done # {})
    => \E w \in done :
          /\ res[w].status = "acquired"
          /\ res[w].process_id_str = HolderOf(w)
          /\ \A p \in done \ {w} :
                /\ res[p].status = "denied"
                /\ res[p].locked_by = HolderOf(w)
                /\ res[p].resource_name = res[w].resource_name

\* every slot has been answered: one winner among NumProcs parallel callers
C2_Witness ==
    /\ \A p \in Procs : pc[p] = "done"
    /\ \E p \in Procs : res[p].status = "denied"

\* C3: the store never holds two records for one resource_name, and a save
\* for a resource_name that already has a record, live or expired, fails with
\* the duplicate key error and leaves the store as it was.
C3_UniqueResourceName ==
    /\ [](\A d1, d2 \in store : d1.resource_name = d2.resource_name => d1 = d2)
    /\ [][\A p \in Procs :
            (Leaves(p, "acq_save") /\ Matching(store, newLock[p].resource_name) # {})
            => (pc'[p] = "acq_catch" /\ store' = store)]_vars

\* a save has met an expired record of its resource_name and been refused
C3_Witness ==
    \E p \in Procs :
        /\ pc[p] = "acq_catch"
        /\ \E d \in Matching(store, req[p].resource_name) :
              d.expires_at # Null /\ d.expires_at < now

\* C4: a Release(R, B) never deletes a lease whose holder is not B, under
\* every interleaving.
C4_ReleaseOnlyOwn ==
    [][\A p \in Procs :
          Leaves(p, "rel_delete")
          => \A d \in store \ store' : d.process_id_str = req[p].process_id_str]_vars

\* C5: Release(R, B) that reads a live lease of A # B answers Forbidden and
\* changes nothing: the lease is still in the store, and a Status(R) reading
\* it answers Locked{A}.
C5_ForbiddenRelease ==
    [][\A p \in Procs : \A d \in store :
          (/\ d.resource_name = req[p].resource_name
           /\ ~(d.expires_at # Null /\ d.expires_at < now))
          => /\ (Leaves(p, "rel_find") /\ d.process_id_str # req[p].process_id_str)
                => (res'[p] = Forbidden(d.resource_name) /\ store' = store)
             /\ Leaves(p, "status_find")
                => (res'[p].status = "locked" /\ res'[p].locked_by = d.process_id_str
                    /\ store' = store)]_vars

\* a release has been refused while the lease of another holder is live
C5_Witness ==
    \E p \in Procs : \E d \in store :
        /\ res[p] = Forbidden(d.resource_name)
        /\ d.process_id_str \in Holders
        /\ ~(d.expires_at # Null /\ d.expires_at < now)

\* the liveness rule of the data model: a lease is live at clock value t iff
\* it has no expires_at or its expires_at is after t
Live(d, t) == d.expires_at = Null \/ d.expires_at > t

\* a lease whose expires_at the clock value t has passed
Passed(d, t) == d.expires_at # Null /\ d.expires_at < t

\* C6: with requests served one after another, a lease with a ttl stays in
\* the store while the clock is before its expires_at unless a Release
\* deletes it, and a Status reading it then answers Locked{A}; a Status
\* reading it after the clock has passed expires_at reclaims it and answers
\* Unlocked; and an Acquire that finds no record, or one whose expires_at has
\* passed, is answered Acquired and its lease is in the store.
C6_TtlLease ==
    [][/\ \A d \in store :
            (/\ d.expires_at # Null /\ now' < d.expires_at
             /\ ~\E p \in Procs :
                   Leaves(p, "rel_delete") /\ req[p].resource_name = d.resource_name)
            => d \in store'
       /\ \A p \in Procs :
        LET r == req[p].resource_name
            before == {d \in Matching(store, r) : d.expires_at # Null /\ now < d.expires_at}
            passed == {d \in Matching(store, r) : Passed(d, now)}
        IN
        /\ Leaves(p, "status_find")
           => /\ \A d \in before : res'[p] = Locked(r, d)
              /\ passed # {} => pc'[p] = "status_delete"
        /\ Leaves(p, "status_delete")
           => (res'[p] = Unlocked(r) /\ Matching(store', r) = {})
        /\ (Leaves(p, "acq_find") /\ (Matching(store, r) = {} \/ passed # {}))
           => pc'[p] \in {"acq_delete", "acq_save"}
        /\ Leaves(p, "acq_delete")
           => (pc'[p] = "acq_save" /\ Matching(store', r) = {})
        /\ Leaves(p, "acq_save")
           => /\ res'[p] = Acquired(r, req[p].process_id_str)
              /\ \E d \in Matching(store', r) :
                    /\ d.process_id_str = req[p].process_id_str
                    /\ d.locked_at \in Times
                    /\ req[p].ttl_seconds > 0 => d.expires_at = d.locked_at + req[p].ttl_seconds
       ]_vars

\* an Acquire by B has met the lease of A after its expires_at has passed
C6_Witness ==
    \E p \in Procs : \E d \in store :
        /\ pc[p] = "acq_delete"
        /\ req[p].resource_name = d.resource_name
        /\ req[p].process_id_str # d.process_id_str
        /\ Passed(d, now)

\* some handler is about to delete the record of r on the strength of a
\* record it read earlier
PendingDelete(r) ==
    \E p \in Procs :
        \/ pc[p] \in {"acq_delete", "status_delete", "rel_delete"} /\ req[p].resource_name = r
        \/ /\ pc[p] = "list_delete"
           /\ \E i \in 1..Len(locks[p]) :
                 locks[p][i].resource_name = r /\ Passed(locks[p][i], currentTime[p])

\* Release(R, A) has been called for the lease d of A on R
ReleaseCalled(d) ==
    \E p \in Procs :
        /\ req[p].op = "release"
        /\ req[p].resource_name = d.resource_name
        /\ req[p].process_id_str = d.process_id_str

\* the lease d, acquired without ttl, is in the store; no delete decided
\* before it was stored is pending and its holder has not called Release
Held(d) ==
    /\ d \in store
    /\ d.expires_at = Null
    /\ ~PendingDelete(d.resource_name)
    /\ ~ReleaseCalled(d)

\* C7: a lease acquired without ttl never expires.  Once it is in the store,
\* no step of any Status, ListAll, ListByHolder, Acquire or Release by a
\* non-holder, and no advance of the clock, removes it or prepares its
\* removal, and every Status reading it answers Locked{A}, until Release(R, A)
\* is called.
C7_NoTtlNeverExpires ==
    [][\A d \in store :
          Held(d)
          => \/ ReleaseCalled(d)'
             \/ /\ Held(d)'
                /\ \A p \in Procs :
                      (Leaves(p, "status_find") /\ req[p].resource_name = d.resource_name)
                      => res'[p] = Locked(d.resource_name, d)]_vars

\* at the end of the clock a Status has answered Locked for a lease without
\* ttl taken at the start, after the other caller tried to acquire it
C7_Witness ==
    \E d \in store : \E p, q \in Procs :
        /\ Held(d)
        /\ d.locked_at = 0
        /\ now = MaxClock
        /\ res[p] = Locked(d.resource_name, d)
        /\ res[q] = Denied(d.resource_name, d.process_id_str)

\* slot p's list handler answers in this step
ListAnswers(p) == pc[p] \in {"all_find", "proc_find", "list_delete"} /\ pc'[p] = "done"

\* the records a list request is about
Scope(q, S) == IF q.op = "list_all" THEN S ELSE {d \in S : d.process_id_str = q.process_id_str}

\* C8: with no concurrent operation, a list handler answers with exactly the
\* live leases in its scope (all of them for ListAll, those of H for
\* ListByHolder(H)), and no record that is not live is left in its scope.
C8_ListExactlyLive ==
    [][\A p \in Procs :
          ListAnswers(p)
          => /\ Range(res'[p].list) =
                   {Entry(req[p].op, d) :
                       d \in {x \in Scope(req[p], store) : Live(x, currentTime[p])}}
             /\ \A d \in Scope(req[p], store') : Live(d, currentTime[p])]_vars

\* C9: a Release that finds no record answers NotLocked and changes nothing;
\* a Release answered Released leaves no record of the resource behind, so a
\* second Release(R, A) with no Acquire in between answers NotLocked and the
\* store stays as the first left it.
C9_ReleaseIdempotent ==
    [][\A p \in Procs :
        LET r == req[p].resource_name IN
        /\ (Leaves(p, "rel_find") /\ Matching(store, r) = {})
           => (res'[p] = NotLocked(r) /\ store' = store)
        /\ Leaves(p, "rel_delete")
           => (res'[p] = Released(r) /\ Matching(store', r) = {})]_vars

\* a Release has been answered Released and a later one NotLocked
C9_Witness ==
    \E p, q \in Procs : \E r \in Resources :
        /\ res[p] = Released(r)
        /\ res[q] = NotLocked(r)
        /\ Matching(store, r) = {}

\* C10: a Release that reads a record whose expires_at has passed answers
\* NotLocked, whoever asks.
C10_ExpiredInvisibleToRelease ==
    [][\A p \in Procs :
          (/\ Leaves(p, "rel_find")
           /\ \E d \in Matching(store, req[p].resource_name) : Passed(d, now))
          => (pc'[p] = "done" /\ res'[p] = NotLocked(req[p].resource_name))]_vars

\* C11: Acquire and Release with an empty or missing resource_name or holder
\* id answer 400 without a store call: no request with an empty name is ever
\* in flight in these two handlers, and the step that answers 400 is taken
\* from a free slot, ends the handler at once and leaves the store as it was.
C11_InvalidArgument ==
    /\ [](\A p \in Procs :
            req[p].op \in {"acquire", "release"}
            => (req[p].resource_name # "" /\ req[p].process_id_str # ""))
    /\ [][\A p \in Procs :
            (res'[p] = Invalid /\ res[p] # Invalid)
            => (Free(p) /\ pc'[p] = "done" /\ req'[p] = NoReq /\ store' = store)]_vars

\* a request has been answered 400 while a lease is held; the lease is still there
C11_Witness ==
    \E p \in Procs : \E d \in store :
        /\ pc[p] = "done"
        /\ res[p] = Invalid
        /\ granted[d.resource_name] = d

\* C12: reclamation removes only expired records.  The deleteOne that
\* Acquire, Status or a list handler issues after it saw an expired record
\* removes no record that is live when the delete takes effect.
C12_ReclaimOnlyExpired ==
    [][\A p \in Procs :
          (Leaves(p, "acq_delete") \/ Leaves(p, "status_delete") \/ Leaves(p, "list_delete"))
          => \A d \in store \ store' : ~Live(d, now)]_vars

\* C13: an Acquire whose save met a duplicate key always ends denied, naming
\* a holder: the catch block's re-read is followed by a 409 answer with
\* locked_by set, whatever happened to the conflicting record meanwhile.
C13_ConflictAlwaysDenied ==
    [][\A p \in Procs :
          Leaves(p, "acq_catch")
          => /\ pc'[p] = "done"
             /\ res'[p].status = "denied"
             /\ res'[p].locked_by \in Holders]_vars

\* slot p's handler takes its next step: an awaited store call answers or fails
Continue(p) ==
    \/ AcqFindOne(p) \/ AcqDeleteOne(p) \/ AcqSave(p) \/ AcqCatchFindOne(p)
    \/ RelFindOne(p) \/ RelDeleteOne(p)
    \/ StatusFindOne(p) \/ StatusDeleteOne(p)
    \/ ListAllFind(p) \/ ListProcFind(p) \/ ListDeleteOne(p)
    \/ AcqStoreError(p) \/ AcqCatchStoreError(p) \/ RelStoreError(p)
    \/ StatusStoreError(p) \/ ListStoreError(p)

\* C14: every invocation returns exactly one typed result, also when a store
\* call fails.  A handler that has not answered can always take its next step
\* (it waits for nothing but its own store call), a handler that has ended
\* has sent a response, and a response once sent is not replaced before the
\* slot takes up its next request.
C14_AlwaysOneResult ==
    /\ [](\A p \in Procs :
            /\ ~Free(p) => ENABLED Continue(p)
            /\ pc[p] = "done" => res[p].code \in {200, 400, 403, 404, 409, 500})
    /\ [][\A p \in Procs :
            (res[p] # NoRes /\ res'[p] # res[p]) => Free(p)]_vars

\* C15: reclamation is best effort.  When the deleteOne that Status or a list
\* handler issues for an expired record is over, failed or not, Status
\* answers unlocked and a list handler goes on with its loop or answers with
\* its list: never an error.
C15_ReclaimBestEffort ==
    [][\A p \in Procs :
          /\ Leaves(p, "status_delete") => res'[p] = Unlocked(req[p].resource_name)
          /\ (Leaves(p, "list_delete") /\ pc'[p] = "done") => res'[p].status = "list"]_vars

\* C16: for every ttl that is given, ttl = 0 included, a successful Acquire
\* stores expires_at = locked_at + ttl; expires_at is missing only when no
\* ttl is given.
C16_ExpiresAtFromTtl ==
    [][\A p \in Procs :
          (Leaves(p, "acq_save") /\ res'[p].status = "acquired")
          => \E d \in store' \ store :
                /\ d.resource_name = req[p].resource_name
                /\ d.expires_at = IF req[p].ttl_seconds = NoTTL
                                  THEN Null
                                  ELSE d.locked_at + req[p].ttl_seconds]_vars

\* C17: the liveness boundary.  A record is live iff expires_at is missing or
\* expires_at > now; a record that is not live when it is read, at
\* now = expires_at included, is Unlocked to Status, is left out by the list
\* handlers, and gets no Acquire denied.
C17_LivenessBoundary ==
    [][\A p \in Procs :
          /\ \A d \in Matching(store, req[p].resource_name) :
                ~Live(d, now)
                => /\ Leaves(p, "status_find") => res'[p].status # "locked"
                   /\ Leaves(p, "acq_find") => res'[p].status # "denied"
          /\ ListAnswers(p)
             => \A d \in store :
                   ~Live(d, currentTime[p])
                   => Entry(req[p].op, d) \notin Range(res'[p].list)]_vars

\* C18: an Acquire that reads a live lease on its resource is answered 409
\* denied, naming the lease's holder, and the store is left as it was: same
\* holder, locked_at and expires_at.  So it is when the requester is the
\* holder: the lease is not extended.
C18_DeniedLeavesLease ==
    [][\A p \in Procs :
          \A d \in Matching(store, req[p].resource_name) :
             (Leaves(p, "acq_find") /\ Live(d, now))
             => /\ pc'[p] = "done"
                /\ res'[p].code = 409
                /\ res'[p].status = "denied"
                /\ res'[p].locked_by = d.process_id_str
                /\ store' = store]_vars

\* an Acquire has been denied in favour of the holder of a ttl lease that is
\* still live, and that lease is in the store as it was granted before
C18_Witness ==
    \E p \in Procs : \E d \in store :
        /\ res[p] = Denied(d.resource_name, d.process_id_str)
        /\ granted[d.resource_name] = d
        /\ d.expires_at # Null
        /\ Live(d, now)

\* the resource slot p's step is about: that of the request it is serving,
\* or of the one it takes up
About(p) == IF Free(p) THEN req'[p].resource_name ELSE req[p].resource_name

\* C19: resources are independent.  Every step of an Acquire, Release or
\* Status on R leaves the records of every other resource as they were, and
\* what it does next is what R's own record calls for: with no record of R it
\* goes on to save, or answers not locked or unlocked; with one, it reclaims
\* it, names its holder, compares its holder with the requester's or reports
\* it - whatever the other resources hold and whatever is under way on them.
C19_Independence ==
    [][\A p \in Procs :
          (pc'[p] # pc[p] \/ req'[p] # req[p] \/ res'[p] # res[p])
          => LET r == About(p)
                 own == Matching(store, r)
             IN
             /\ \A o \in Resources \ {r} : Matching(store', o) = Matching(store, o)
             /\ pc'[p] = "done" => res'[p].resource_name = r
             /\ Leaves(p, "acq_find")
                => IF own = {} THEN pc'[p] = "acq_save"
                   ELSE \E d \in own :
                          \/ pc'[p] = "acq_delete" /\ Expired(d, now)
                          \/ res'[p] = Denied(r, d.process_id_str) /\ ~Expired(d, now)
             /\ Leaves(p, "rel_find")
                => IF own = {} THEN res'[p] = NotLocked(r)
                   ELSE \E d \in own :
                          \/ pc'[p] = "rel_delete" /\ d.process_id_str = req[p].process_id_str
                          \/ res'[p] = Forbidden(r) /\ d.process_id_str # req[p].process_id_str
             /\ Leaves(p, "status_find")
                => IF own = {} THEN res'[p] = Unlocked(r)
                   ELSE \E d \in own :
                          \/ pc'[p] = "status_delete" /\ Expired(d, now)
                          \/ res'[p] = Locked(r, d) /\ ~Expired(d, now)]_vars

\* a request on one resource has been answered while the other resource holds
\* a lease and a request on it is under way
C19_Witness ==
    \E p, q \in Procs : \E d, e \in store :
        /\ d.resource_name # e.resource_name
        /\ res[p] = Denied(d.resource_name, d.process_id_str)
        /\ req[q].resource_name = e.resource_name
        /\ pc[q] \in {"rel_delete", "status_delete", "acq_delete"}

====
